---- MODULE Spec2Model ----
(***************************************************************************)
(* Model of slack2opsgenie_lambda/slack2opsgenie.py: the Slack request     *)
(* signature verification, the warm name caches with their lookups, the    *)
(* payload builder and lambda_handler.                                     *)
(*                                                                         *)
(* Python values are represented as follows.                               *)
(*   str            a TLA+ string (TLC evaluates \o, Len and SubSeq on it) *)
(*   None           the string None below, which no input set contains     *)
(*   dict           a function whose DOMAIN is the set of keys present     *)
(*   a body text    [chars |-> its characters, json |-> the dict it        *)
(*                  denotes when it is JSON]                               *)
(*   HMAC-SHA256    a collision-free keyed function: the digest of         *)
(*                  (key, msg) is the printed pair, so that two digests    *)
(*                  are equal exactly when key and msg are equal           *)
(***************************************************************************)
EXTENDS Integers, Sequences, FiniteSets, TLC

VARIABLES
    env,             \* os.environ of the process
    _CHANNEL_CACHE,  \* module-level dict, channel id -> name
    _USER_CACHE,     \* module-level dict, user id -> name
    sqsQueue,        \* messages accepted by sqs.send_message, oldest first
    pc,              \* position of the current invocation / call
    event,           \* the Lambda event of the current invocation
    now,             \* int(time.time()) as read by the current invocation
    verdict,         \* what _verify_slack_signature produced (ok, reason)
    response,        \* what lambda_handler returned, or the exception raised
    apiCalls,        \* urlopen calls made by the current invocation / call
    sendCalls,       \* sqs.send_message calls made by the current invocation
    payload,         \* the dict _build_direct_message_payload returned to the
                     \* current invocation / call, {} while it has not run
    callArg,         \* function and argument of the current direct call
    callRet,         \* name returned by the current direct resolver call
    totalCalls,      \* urlopen calls made by the process, per <<path, id>>
    failedLookups,   \* the <<path, id>> whose lookup fell back to the id
    returned,        \* names returned so far, per <<path, id>> with an id
    written,         \* names stored in a cache so far, per <<path, id>>
    looked,          \* names the lookups produced so far, per <<path, id>>
    workers          \* concurrent get_channel_name activations (race model)

vars == <<env, _CHANNEL_CACHE, _USER_CACHE, sqsQueue, pc, event, now, verdict,
          response, apiCalls, sendCalls, payload, callArg, callRet,
          totalCalls, failedLookups, returned, written, looked, workers>>

caches == <<_CHANNEL_CACHE, _USER_CACHE>>

history == <<totalCalls, failedLookups, returned, written, looked>>

direct == <<callArg, callRet>>

-----------------------------------------------------------------------------
(* Python helpers *)

None == "<None>"

EmptyDict == <<>>

\* d.get(k, default)
Get(d, k, default) == IF k \in DOMAIN d THEN d[k] ELSE default

\* truthiness of a str-or-None value: `not x` is Falsy(x)
Falsy(x) == x = None \/ x = ""

\* a or b, for str-or-None values
Or(a, b) == IF Falsy(a) THEN b ELSE a

\* d with d[k] = v added or replaced
DictSet(d, k, v) == [x \in DOMAIN d \cup {k} |-> IF x = k THEN v ELSE d[x]]

Abs(n) == IF n < 0 THEN -n ELSE n

Min(a, b) == IF a < b THEN a ELSE b

\* s[:n]
Truncate(s, n) == SubSeq(s, 1, Min(n, Len(s)))

\* `needle in s` for strings
Contains(s, needle) ==
    \E i \in 1..(Len(s) - Len(needle) + 1) :
        SubSeq(s, i, i + Len(needle) - 1) = needle

\* A text is a record: its characters and, when it is JSON, the dict it
\* denotes.  json.dumps(d) and json.loads(t):
json_dumps(d) == [chars |-> ToString(d), json |-> d]

json_loads(t) == t.json

\* a text that is not JSON
PlainText(s) == [chars |-> s, json |-> EmptyDict]

\* one-entry dict
Entry(k, v) == [x \in {k} |-> v]

\* d.get(k) when d[k], if present, is a bool
GetBool(d, k) == IF k \in DOMAIN d THEN d[k] ELSE FALSE

\* d.get(k, {}) when d[k], if present, is a dict
GetDict(d, k) == IF k \in DOMAIN d THEN d[k] ELSE EmptyDict

-----------------------------------------------------------------------------
(* int(ts), line 31: an optional sign followed by decimal digits; anything *)
(* else raises ValueError.                                                 *)

Digits == [c \in {"0", "1", "2", "3", "4", "5", "6", "7", "8", "9"} |->
             CASE c = "0" -> 0 [] c = "1" -> 1 [] c = "2" -> 2 [] c = "3" -> 3
               [] c = "4" -> 4 [] c = "5" -> 5 [] c = "6" -> 6 [] c = "7" -> 7
               [] c = "8" -> 8 [] c = "9" -> 9]

IsDigits(s) ==
    /\ Len(s) > 0
    /\ \A i \in 1..Len(s) : SubSeq(s, i, i) \in DOMAIN Digits

RECURSIVE DigitsValue(_)
DigitsValue(s) ==
    IF Len(s) = 0 THEN 0
    ELSE 10 * DigitsValue(SubSeq(s, 1, Len(s) - 1))
         + Digits[SubSeq(s, Len(s), Len(s))]

\* [ok |-> FALSE] stands for ValueError
int(s) ==
    LET sign == IF Len(s) > 0 THEN SubSeq(s, 1, 1) ELSE ""
        rest == IF sign \in {"-", "+"} THEN SubSeq(s, 2, Len(s)) ELSE s
    IN  IF IsDigits(rest)
        THEN [ok |-> TRUE,
              val |-> IF sign = "-" THEN -DigitsValue(rest) ELSE DigitsValue(rest)]
        ELSE [ok |-> FALSE, val |-> 0]

-----------------------------------------------------------------------------
(* Signature verification *)

MAX_AGE_SECONDS == 60 * 5

_get_header(headers, name, lower) ==
    IF headers = EmptyDict THEN None
    ELSE Or(Get(headers, name, None), Get(headers, lower, None))

\* hmac.new(key, msg, sha256).hexdigest()
hexdigest(key, msg) == ToString(<<key, msg>>)

\* f"v0:{ts}:{raw_body}"
basestring(ts, raw_body) == "v0:" \o ts \o ":" \o raw_body

\* f"v0={digest}"
ExpectedSignature(secret, ts, raw_body) ==
    "v0=" \o hexdigest(secret, basestring(ts, raw_body))

\* the strings of the input sets that have a character outside ASCII
NonAsciiStrings == {"v0=é"}

IsAscii(s) == s \notin NonAsciiStrings

\* hmac.compare_digest(a, b) on two str: raises TypeError ("comparing
\* strings with non-ASCII characters is not supported") unless both are
\* ASCII, else tells whether they are equal
compare_digest(a, b) ==
    IF IsAscii(a) /\ IsAscii(b) THEN [raised |-> None, eq |-> a = b]
    ELSE [raised |-> "TypeError", eq |-> FALSE]

Verdict(ok, reason) == [raised |-> None, ok |-> ok, reason |-> reason]

Raised(exc) == [raised |-> exc, ok |-> FALSE, reason |-> None]

\* line 35 without abs(): only stale timestamps are out of range
TimestampOutOfRange_stale(t, ts_int) == t - ts_int > MAX_AGE_SECONDS

\* line 35
TimestampOutOfRange(t, ts_int) == Abs(t - ts_int) > MAX_AGE_SECONDS

\* raw_body is the text of the body: "" or the characters of a JSON text
_verify_slack_signature(headers, raw_body, t, environ) ==
    LET ts  == _get_header(headers, "X-Slack-Request-Timestamp",
                                    "x-slack-request-timestamp")
        sig == _get_header(headers, "X-Slack-Signature", "x-slack-signature")
    IN  IF Falsy(ts) \/ Falsy(sig) THEN Verdict(FALSE, "missing_slack_headers")
        ELSE IF ~int(ts).ok THEN Verdict(FALSE, "bad_timestamp")
        ELSE IF TimestampOutOfRange(t, int(ts).val)
             THEN Verdict(FALSE, "timestamp_out_of_range")
        ELSE LET expected == ExpectedSignature(environ["SLACK_SIGNING_SECRET"],
                                               ts, raw_body)
                 cmp == compare_digest(expected, sig)
             IN  IF cmp.raised # None THEN Raised(cmp.raised)
                 ELSE IF ~cmp.eq THEN Verdict(FALSE, "signature_mismatch")
                 ELSE Verdict(TRUE, "ok")

-----------------------------------------------------------------------------
(* Name resolution.  `r` is what _slack_api_get does when it is called:    *)
(* [raised |-> exc, data |-> dict], the exception of urlopen / json.loads  *)
(* or the decoded response.  A resolver yields the returned name and the   *)
(* cache afterwards, and tells whether it called urlopen and whether the   *)
(* lookup ended in a fallback branch.                                      *)

Resolved(path, id, name, cache, called, failed) ==
    [path |-> path, id |-> id, name |-> name, cache |-> cache,
     called |-> called, failed |-> failed]

\* lines 82-103 / 120-141 falling back to the placeholder "unknown" instead
\* of the identifier
LookupName_unknown(r, key, id) ==
    IF r.raised # None THEN "unknown"
    ELSE IF GetBool(r.data, "ok") /\ key \in DOMAIN r.data
         THEN Or(Get(r.data[key], "name", None), id)
         ELSE "unknown"

\* lines 82-103 / 120-141 with line 86 / 124 lacking its `or channel_id`:
\* a response without a usable name yields an empty name
LookupName_blank(r, key, id) ==
    IF r.raised # None THEN id
    ELSE IF GetBool(r.data, "ok") /\ key \in DOMAIN r.data
         THEN Get(r.data[key], "name", "")
         ELSE id

\* lines 82-103 / 120-141: the name chosen after the lookup
LookupName(r, key, id) ==
    IF r.raised # None THEN id
    ELSE IF GetBool(r.data, "ok") /\ key \in DOMAIN r.data
         THEN Or(Get(r.data[key], "name", None), id)
         ELSE id

\* the lookup ended in a fallback branch (lines 87-103 / 125-141)
LookupFailed(r, key) ==
    r.raised # None \/ ~(GetBool(r.data, "ok") /\ key \in DOMAIN r.data)

\* get_channel_name without lines 78-79: the cache is written, never read
get_channel_name_unread(channel_id, cache, r) ==
    IF Falsy(channel_id)
    THEN Resolved("conversations.info", channel_id, "unknown", cache,
                  FALSE, FALSE)
    ELSE LET name == LookupName(r, "channel", channel_id)
         IN  Resolved("conversations.info", channel_id, name,
                      DictSet(cache, channel_id, name),
                      TRUE, LookupFailed(r, "channel"))

get_channel_name(channel_id, cache, r) ==
    IF Falsy(channel_id)
    THEN Resolved("conversations.info", channel_id, "unknown", cache,
                  FALSE, FALSE)
    ELSE IF channel_id \in DOMAIN cache
    THEN Resolved("conversations.info", channel_id, cache[channel_id], cache,
                  FALSE, FALSE)
    ELSE LET name == LookupName(r, "channel", channel_id)
         IN  Resolved("conversations.info", channel_id, name,
                      DictSet(cache, channel_id, name),
                      TRUE, LookupFailed(r, "channel"))

\* get_user_name that returns from the fallback branches without line 143:
\* only a name that was looked up is cached
get_user_name_retry(user_id, cache, r) ==
    IF Falsy(user_id)
    THEN Resolved("users.info", user_id, "unknown", cache, FALSE, FALSE)
    ELSE IF user_id \in DOMAIN cache
    THEN Resolved("users.info", user_id, cache[user_id], cache, FALSE, FALSE)
    ELSE LET name == LookupName(r, "user", user_id)
         IN  Resolved("users.info", user_id, name,
                      IF LookupFailed(r, "user") THEN cache
                      ELSE DictSet(cache, user_id, name),
                      TRUE, LookupFailed(r, "user"))

\* get_user_name without lines 113-114: an empty identifier is looked up
\* and cached like any other
get_user_name_lookupempty(user_id, cache, r) ==
    IF user_id \in DOMAIN cache
    THEN Resolved("users.info", user_id, cache[user_id], cache, FALSE, FALSE)
    ELSE LET name == LookupName(r, "user", user_id)
         IN  Resolved("users.info", user_id, name,
                      DictSet(cache, user_id, name),
                      TRUE, LookupFailed(r, "user"))

get_user_name(user_id, cache, r) ==
    IF Falsy(user_id)
    THEN Resolved("users.info", user_id, "unknown", cache, FALSE, FALSE)
    ELSE IF user_id \in DOMAIN cache
    THEN Resolved("users.info", user_id, cache[user_id], cache, FALSE, FALSE)
    ELSE LET name == LookupName(r, "user", user_id)
         IN  Resolved("users.info", user_id, name,
                      DictSet(cache, user_id, name),
                      TRUE, LookupFailed(r, "user"))

-----------------------------------------------------------------------------
(* Payload builder: the payload, with the two resolutions it made *)

\* os.getenv(name, default)
getenv(environ, name, default) == Get(environ, name, default)

\* line 159 building the fallback identifier from the channel name
_build_direct_message_payload_named(slack_body, chCache, usCache, rc, ru, environ) ==
    LET ev           == GetDict(slack_body, "event")
        text         == Get(ev, "text", "")
        channel_id   == Get(ev, "channel", "unknown")
        ch           == get_channel_name(channel_id, chCache, rc)
        channel_name == ch.name
        user_id      == Get(ev, "user", "unknown")
        us           == get_user_name(user_id, usCache, ru)
        user_name    == us.name
        ts           == Get(ev, "ts", "no-ts")
        event_id     == Or(Get(slack_body, "event_id", None),
                           channel_name \o "-" \o ts)
        readable_channel == IF channel_name # channel_id
                            THEN "#" \o channel_name ELSE channel_id
    IN  [msg |->
           [direct_message |-> TRUE,
            subject |-> Truncate("Slack message in " \o readable_channel
                                 \o " from " \o user_name, 100),
            message |-> "Channel: " \o readable_channel \o "\nUser: "
                        \o user_name \o "\n\n" \o text,
            alias |-> "slack-" \o event_id,
            client_name |-> getenv(environ, "CLIENT_NAME", "CustomerSlackChannel"),
            sla |-> getenv(environ, "DEFAULT_SLA", "24x7"),
            account_id |-> channel_id,
            account_name |-> readable_channel,
            priority |-> getenv(environ, "DEFAULT_PRIORITY", "P1")],
         resolutions |-> <<ch, us>>]

\* line 177 taking account_id from the channel name
_build_direct_message_payload_renamed(slack_body, chCache, usCache, rc, ru, environ) ==
    LET ev           == GetDict(slack_body, "event")
        text         == Get(ev, "text", "")
        channel_id   == Get(ev, "channel", "unknown")
        ch           == get_channel_name(channel_id, chCache, rc)
        channel_name == ch.name
        user_id      == Get(ev, "user", "unknown")
        us           == get_user_name(user_id, usCache, ru)
        user_name    == us.name
        ts           == Get(ev, "ts", "no-ts")
        event_id     == Or(Get(slack_body, "event_id", None),
                           channel_id \o "-" \o ts)
        readable_channel == IF channel_name # channel_id
                            THEN "#" \o channel_name ELSE channel_id
    IN  [msg |->
           [direct_message |-> TRUE,
            subject |-> Truncate("Slack message in " \o readable_channel
                                 \o " from " \o user_name, 100),
            message |-> "Channel: " \o readable_channel \o "\nUser: "
                        \o user_name \o "\n\n" \o text,
            alias |-> "slack-" \o event_id,
            client_name |-> getenv(environ, "CLIENT_NAME", "CustomerSlackChannel"),
            sla |-> getenv(environ, "DEFAULT_SLA", "24x7"),
            account_id |-> channel_name,
            account_name |-> readable_channel,
            priority |-> getenv(environ, "DEFAULT_PRIORITY", "P1")],
         resolutions |-> <<ch, us>>]

_build_direct_message_payload(slack_body, chCache, usCache, rc, ru, environ) ==
    LET ev           == GetDict(slack_body, "event")
        text         == Get(ev, "text", "")
        channel_id   == Get(ev, "channel", "unknown")
        ch           == get_channel_name(channel_id, chCache, rc)
        channel_name == ch.name
        user_id      == Get(ev, "user", "unknown")
        us           == get_user_name(user_id, usCache, ru)
        user_name    == us.name
        ts           == Get(ev, "ts", "no-ts")
        event_id     == Or(Get(slack_body, "event_id", None),
                           channel_id \o "-" \o ts)
        readable_channel == IF channel_name # channel_id
                            THEN "#" \o channel_name ELSE channel_id
    IN  [msg |->
           [direct_message |-> TRUE,
            subject |-> Truncate("Slack message in " \o readable_channel
                                 \o " from " \o user_name, 100),
            message |-> "Channel: " \o readable_channel \o "\nUser: "
                        \o user_name \o "\n\n" \o text,
            alias |-> "slack-" \o event_id,
            client_name |-> getenv(environ, "CLIENT_NAME", "CustomerSlackChannel"),
            sla |-> getenv(environ, "DEFAULT_SLA", "24x7"),
            account_id |-> channel_id,
            account_name |-> readable_channel,
            priority |-> getenv(environ, "DEFAULT_PRIORITY", "P1")],
         resolutions |-> <<ch, us>>]

-----------------------------------------------------------------------------
(* lambda_handler.  Its result here: the response (or the exception that   *)
(* escapes), the verdict of the signature check, both caches afterwards,   *)
(* the resolutions made, the payload built, the number of                  *)
(* sqs.send_message calls made and the messages the queue accepted.        *)

Response(status, headers, body) ==
    [raised |-> None, statusCode |-> status, headers |-> headers, body |-> body]

\* an exception escaping the handler
Escapes(exc) ==
    [raised |-> exc, statusCode |-> 0, headers |-> EmptyDict,
     body |-> PlainText("")]

\* no response yet
NoResponse == Escapes(None)

\* the verdict while _verify_slack_signature has not been called
NotRun == [raised |-> None, ok |-> FALSE, reason |-> "<not run>"]

JsonHeaders == Entry("Content-Type", "application/json")

\* an invocation that ends before the payload is built
Early(resp, v, chCache, usCache) ==
    [response |-> resp, verdict |-> v, chCache |-> chCache,
     usCache |-> usCache, resolutions |-> <<>>, msg |-> EmptyDict,
     sends |-> 0, accepted |-> <<>>]

KEYWORD == "prio1"

\* line 192 letting a request with an old timestamp through
AuthRejected_replay(v) == ~v.ok /\ v.reason # "timestamp_out_of_range"

\* line 192: `if not ok`
AuthRejected(v) == ~v.ok

\* lines 194-198
Unauthorized(reason) ==
    Response(401, JsonHeaders,
             json_dumps([error |-> "unauthorized", reason |-> reason]))

\* lines 204-208 echoing the token of the body instead of its challenge
ChallengeResponse_token(body) ==
    Response(200, JsonHeaders,
             json_dumps(Entry("challenge", Get(body, "token", None))))

\* lines 204-208
ChallengeResponse(body) ==
    Response(200, JsonHeaders,
             json_dumps(Entry("challenge", Get(body, "challenge", None))))

Ok == Response(200, EmptyDict, PlainText("ok"))

Ignored == Response(200, EmptyDict, PlainText("ignored"))

\* lines 210-226 without lines 220-221: bot posts are admitted
Filter_nobot(body, environ) ==
    LET ev == GetDict(body, "event")
        allowed_channel == getenv(environ, "ALLOWED_CHANNEL_ID", None)
    IN  IF Get(body, "type", None) # "event_callback" THEN Ok
        ELSE IF Get(ev, "type", None) # "message" THEN Ignored
        ELSE IF ~Falsy(Get(ev, "subtype", None)) THEN Ignored
        ELSE IF ~Falsy(allowed_channel)
                /\ Get(ev, "channel", None) # allowed_channel THEN Ignored
        ELSE NoResponse

\* lines 210-226: the response of the filter, NoResponse when it admits
Filter(body, environ) ==
    LET ev == GetDict(body, "event")
        allowed_channel == getenv(environ, "ALLOWED_CHANNEL_ID", None)
    IN  IF Get(body, "type", None) # "event_callback" THEN Ok
        ELSE IF Get(ev, "type", None) # "message" THEN Ignored
        ELSE IF ~Falsy(Get(ev, "subtype", None)) THEN Ignored
        ELSE IF "bot_id" \in DOMAIN ev THEN Ignored
        ELSE IF ~Falsy(allowed_channel)
                /\ Get(ev, "channel", None) # allowed_channel THEN Ignored
        ELSE NoResponse

\* lines 231-249 with send_message in a try/except that logs and goes on
Enqueue_swallow(body, msg, queue_url, sqsRaises) ==
    IF "text" \notin DOMAIN body["event"]
    THEN [response |-> Escapes("KeyError"), sends |-> 0, accepted |-> <<>>]
    ELSE IF ~Contains(body["event"]["text"], KEYWORD)
    THEN [response |-> Ok, sends |-> 0, accepted |-> <<>>]
    ELSE IF sqsRaises
    THEN [response |-> Ok, sends |-> 1, accepted |-> <<>>]
    ELSE [response |-> Ok, sends |-> 1,
          accepted |-> << [QueueUrl |-> queue_url,
                           MessageBody |-> json_dumps(msg)] >>]

\* lines 231-249: the keyword check, the enqueue and the return; yields the
\* response, the number of send_message calls and the messages accepted
Enqueue(body, msg, queue_url, sqsRaises) ==
    IF "text" \notin DOMAIN body["event"]
    THEN [response |-> Escapes("KeyError"), sends |-> 0, accepted |-> <<>>]
    ELSE IF ~Contains(body["event"]["text"], KEYWORD)
    THEN [response |-> Ok, sends |-> 0, accepted |-> <<>>]
    ELSE IF sqsRaises
    THEN [response |-> Escapes("ClientError"), sends |-> 1, accepted |-> <<>>]
    ELSE [response |-> Ok, sends |-> 1,
          accepted |-> << [QueueUrl |-> queue_url,
                           MessageBody |-> json_dumps(msg)] >>]

\* lambda_handler with line 228 moved before line 210: the payload is built,
\* and the names resolved, before the filter decides
lambda_handler_enrichfirst(e, t, rc, ru, sqsRaises, environ, chCache, usCache) ==
    LET headers  == GetDict(e, "headers")
        raw_body == IF "body" \in DOMAIN e THEN e["body"] ELSE PlainText("")
        v        == _verify_slack_signature(headers, raw_body.chars, t, environ)
        body     == IF raw_body.chars # "" THEN json_loads(raw_body)
                    ELSE EmptyDict
    IN  IF GetBool(e, "isBase64Encoded")
        THEN Early(Response(400, EmptyDict, PlainText("base64 not supported")),
                   NotRun, chCache, usCache)
        ELSE IF v.raised # None
        THEN Early(Escapes(v.raised), v, chCache, usCache)
        ELSE IF AuthRejected(v)
        THEN Early(Unauthorized(v.reason), v, chCache, usCache)
        ELSE IF Get(body, "type", None) = "url_verification"
        THEN Early(ChallengeResponse(body), v, chCache, usCache)
        ELSE
          LET built == _build_direct_message_payload(body, chCache, usCache,
                                                     rc, ru, environ)
              sent  == IF Filter(body, environ) # NoResponse
                       THEN [response |-> Filter(body, environ), sends |-> 0,
                             accepted |-> <<>>]
                       ELSE Enqueue(body, built.msg, environ["SQS_URL"],
                                    sqsRaises)
          IN  [response |-> sent.response, verdict |-> v,
               chCache |-> built.resolutions[1].cache,
               usCache |-> built.resolutions[2].cache,
               resolutions |-> built.resolutions, msg |-> built.msg,
               sends |-> sent.sends, accepted |-> sent.accepted]

\* lambda_handler with line 228 moved into the else branch of line 231: the
\* payload is built, and the names resolved, only for a text with the keyword
lambda_handler_keywordfirst(e, t, rc, ru, sqsRaises, environ, chCache, usCache) ==
    LET headers  == GetDict(e, "headers")
        raw_body == IF "body" \in DOMAIN e THEN e["body"] ELSE PlainText("")
        v        == _verify_slack_signature(headers, raw_body.chars, t, environ)
        body     == IF raw_body.chars # "" THEN json_loads(raw_body)
                    ELSE EmptyDict
    IN  IF GetBool(e, "isBase64Encoded")
        THEN Early(Response(400, EmptyDict, PlainText("base64 not supported")),
                   NotRun, chCache, usCache)
        ELSE IF v.raised # None
        THEN Early(Escapes(v.raised), v, chCache, usCache)
        ELSE IF AuthRejected(v)
        THEN Early(Unauthorized(v.reason), v, chCache, usCache)
        ELSE IF Get(body, "type", None) = "url_verification"
        THEN Early(ChallengeResponse(body), v, chCache, usCache)
        ELSE IF Filter(body, environ) # NoResponse
        THEN Early(Filter(body, environ), v, chCache, usCache)
        ELSE IF "text" \notin DOMAIN body["event"]
        THEN Early(Escapes("KeyError"), v, chCache, usCache)
        ELSE IF ~Contains(body["event"]["text"], KEYWORD)
        THEN Early(Ok, v, chCache, usCache)
        ELSE
          LET built == _build_direct_message_payload(body, chCache, usCache,
                                                     rc, ru, environ)
              sent  == Enqueue(body, built.msg, environ["SQS_URL"], sqsRaises)
          IN  [response |-> sent.response, verdict |-> v,
               chCache |-> built.resolutions[1].cache,
               usCache |-> built.resolutions[2].cache,
               resolutions |-> built.resolutions, msg |-> built.msg,
               sends |-> sent.sends, accepted |-> sent.accepted]

lambda_handler(e, t, rc, ru, sqsRaises, environ, chCache, usCache) ==
    LET headers  == GetDict(e, "headers")
        raw_body == IF "body" \in DOMAIN e THEN e["body"] ELSE PlainText("")
        v        == _verify_slack_signature(headers, raw_body.chars, t, environ)
        body     == IF raw_body.chars # "" THEN json_loads(raw_body)
                    ELSE EmptyDict
    IN  IF GetBool(e, "isBase64Encoded")
        THEN Early(Response(400, EmptyDict, PlainText("base64 not supported")),
                   NotRun, chCache, usCache)
        ELSE IF v.raised # None
        THEN Early(Escapes(v.raised), v, chCache, usCache)
        ELSE IF AuthRejected(v)
        THEN Early(Unauthorized(v.reason), v, chCache, usCache)
        ELSE IF Get(body, "type", None) = "url_verification"
        THEN Early(ChallengeResponse(body), v, chCache, usCache)
        ELSE IF Filter(body, environ) # NoResponse
        THEN Early(Filter(body, environ), v, chCache, usCache)
        ELSE
          LET built == _build_direct_message_payload(body, chCache, usCache,
                                                     rc, ru, environ)
              sent  == Enqueue(body, built.msg, environ["SQS_URL"], sqsRaises)
          IN  [response |-> sent.response, verdict |-> v,
               chCache |-> built.resolutions[1].cache,
               usCache |-> built.resolutions[2].cache,
               resolutions |-> built.resolutions, msg |-> built.msg,
               sends |-> sent.sends, accepted |-> sent.accepted]

-----------------------------------------------------------------------------
(* Inputs *)

MaxCalls == 2

CLOCK == 1700000000

SECRET == "s3cr3t"

TsHeader == "X-Slack-Request-Timestamp"

SigHeader == "X-Slack-Signature"

\* the signature Slack (or whoever holds `key`) computes for a request
SlackSign(key, ts, text) == ExpectedSignature(key, ts, text.chars)

ChannelDirectory == [C1 |-> "general", C2 |-> "alerts"]

UserDirectory == [U1 |-> "alice"]

ApiRaises == [raised |-> "URLError", data |-> EmptyDict]

\* what _slack_api_get(path, {key: id}) can do: raise, or return one of the
\* decoded responses; only an id of the directory has a successful one
ApiResponses(key, id, directory) ==
    { ApiRaises,
      [raised |-> None, data |-> [ok |-> FALSE, error |-> "missing_scope"]] }
    \cup
    ( IF id \in DOMAIN directory
      THEN { [raised |-> None,
              data |-> ("ok" :> TRUE) @@ (key :> [name |-> directory[id]])],
             [raised |-> None,
              data |-> ("ok" :> TRUE) @@ (key :> [id |-> id])],
             [raised |-> None,
              data |-> ("ok" :> TRUE) @@ (key :> [id |-> id, name |-> ""])],
             [raised |-> None, data |-> [ok |-> TRUE]] }
      ELSE {} )

ChannelResponses(id) == ApiResponses("channel", id, ChannelDirectory)

UserResponses(id) == ApiResponses("user", id, UserDirectory)

\* a dict with the keys of `keys` whose value is not None
Dict(keys, value) == [k \in {x \in keys : value[x] # None} |-> value[k]]

SlackEvent(type, subtype, bot_id, channel, user, text, ts) ==
    Dict({"type", "subtype", "bot_id", "channel", "user", "text", "ts"},
         [type |-> type, subtype |-> subtype, bot_id |-> bot_id,
          channel |-> channel, user |-> user, text |-> text, ts |-> ts])

EventCallback(ev, event_id) ==
    IF event_id = None THEN [type |-> "event_callback", event |-> ev]
    ELSE [type |-> "event_callback", event |-> ev, event_id |-> event_id]

\* events that exercise the filter
FilterBodies ==
    { EventCallback(SlackEvent(type, subtype, bot_id, channel, "U1",
                               "prio1 outage", "1.1"), None) :
        type \in {"message", "reaction_added"},
        subtype \in {None, "channel_join"},
        bot_id \in {None, "B1"},
        channel \in {"C1", "C2"} }

\* plain user messages: the channel, the text, ts and event_id each present,
\* empty or absent
ChannelBodies ==
    { EventCallback(SlackEvent("message", None, None, channel, "U1", text,
                               id[1]), id[2]) :
        channel \in {None, "", "C1", "C2"},
        text \in {None, "hello", "prio1 outage"},
        id \in {<<"1.1", None>>, <<None, None>>, <<"1.1", "Ev1">>} }

\* plain user messages without a usable user
UserBodies ==
    { EventCallback(SlackEvent("message", None, None, channel, user, text,
                               "1.1"), None) :
        channel \in {None, "C1"},
        user \in {None, ""},
        text \in {None, "hello", "prio1 outage"} }

Bodies ==
    { [type |-> "url_verification", challenge |-> "ch4ll3ng3"],
      [type |-> "url_verification"],
      [type |-> "app_rate_limited"],
      [type |-> "event_callback"],
      EmptyDict }
    \cup FilterBodies \cup ChannelBodies \cup UserBodies

ProbeBodies ==
    { [type |-> "url_verification", challenge |-> "ch4ll3ng3"],
      EventCallback(SlackEvent("message", None, None, "C1", "U1",
                               "prio1 outage", "1.1"), None) }

TamperedBody == [type |-> "url_verification", challenge |-> "0th3r"]

\* an API Gateway event
LambdaEvent(headers, text, b64) ==
    IF b64 THEN [headers |-> headers, body |-> text, isBase64Encoded |-> TRUE]
    ELSE [headers |-> headers, body |-> text]

SignedHeaders(key, ts, text) ==
    (TsHeader :> ts) @@ (SigHeader :> SlackSign(key, ts, text))

\* requests Slack signs at CLOCK, for every body
SignedEvents ==
    { LambdaEvent(SignedHeaders(SECRET, "1700000000", json_dumps(b)),
                  json_dumps(b), FALSE) : b \in Bodies }
    \cup
    { [headers |-> SignedHeaders(SECRET, "1700000000", PlainText(""))] }

\* the timestamp headers tried on a request
ProbeTimestamps ==
    {None, "soon", "1700000000", "1700000301", "1699999699"}

\* the signature headers tried on a request with body b
ProbeSignatures(b) ==
    { None, "v0=é",
      SlackSign(SECRET, "1700000301", json_dumps(b)),
      SlackSign(SECRET, "1700000000", json_dumps(TamperedBody)),
      SlackSign("gu3ss", "1700000000", json_dumps(b)) }

\* requests with body b: each timestamp header with the signature Slack
\* computes for it, each signature header with a fresh timestamp, and the
\* base64-flagged ones
ProbeEventsFor(b) ==
    { LambdaEvent(Dict({TsHeader, SigHeader},
                       (TsHeader :> ts)
                       @@ (SigHeader :> SlackSign(SECRET, ts, json_dumps(b)))),
                  json_dumps(b), FALSE) : ts \in ProbeTimestamps }
    \cup
    { LambdaEvent(Dict({TsHeader, SigHeader},
                       (TsHeader :> "1700000000") @@ (SigHeader :> sig)),
                  json_dumps(b), FALSE) : sig \in ProbeSignatures(b) }
    \cup
    { LambdaEvent(SignedHeaders(key, "1700000000", json_dumps(b)),
                  json_dumps(b), TRUE) : key \in {SECRET, "gu3ss"} }

ProbeEvents == UNION { ProbeEventsFor(b) : b \in ProbeBodies }

Events == SignedEvents \cup ProbeEvents

Environments ==
    { [SLACK_SIGNING_SECRET |-> SECRET, BOT_USER_TOKEN |-> "xoxb-1",
       SQS_URL |-> "https://sqs/q"],
      [SLACK_SIGNING_SECRET |-> SECRET, BOT_USER_TOKEN |-> "xoxb-1",
       SQS_URL |-> "https://sqs/q", ALLOWED_CHANNEL_ID |-> "C1"] }

-----------------------------------------------------------------------------
(* The process: one invocation at a time.  The consumer of the queue keeps *)
(* up with it: a request arrives when the queue has been emptied.          *)

\* the resolutions of rs that called urlopen
Called(rs) == {i \in DOMAIN rs : rs[i].called}

Key(res) == <<res.path, res.id>>

\* the urlopen calls of rs, in order
Calls(rs) ==
    LET call(i) == IF rs[i].called THEN <<Key(rs[i])>> ELSE <<>>
    IN  IF Len(rs) = 0 THEN <<>>
        ELSE IF Len(rs) = 1 THEN call(1)
        ELSE call(1) \o call(2)

\* one more urlopen call for each resolution of rs that made one
Count(total, rs) ==
    [k \in DOMAIN total \cup {Key(rs[i]) : i \in Called(rs)} |->
        Get(total, k, 0) + Cardinality({i \in Called(rs) : Key(rs[i]) = k})]

\* the names of the resolutions rs[i], i \in which, join those seen
Record(seen, rs, which) ==
    [k \in DOMAIN seen \cup {Key(rs[i]) : i \in which} |->
        Get(seen, k, {}) \cup {rs[i].name : i \in {j \in which : Key(rs[j]) = k}}]

\* the history after the resolutions rs
Log(rs) ==
    /\ totalCalls' = Count(totalCalls, rs)
    /\ failedLookups' = failedLookups \cup {Key(rs[i]) : i \in {j \in DOMAIN rs : rs[j].failed}}
    /\ returned' = Record(returned, rs, {i \in DOMAIN rs : ~Falsy(rs[i].id)})
    /\ written' = Record(written, rs, Called(rs))
    /\ looked' = Record(looked, rs, Called(rs))
    /\ \A k \in DOMAIN totalCalls' : totalCalls'[k] <= MaxCalls

\* the process after its cold start
Fresh ==
    /\ _CHANNEL_CACHE = EmptyDict
    /\ _USER_CACHE = EmptyDict
    /\ sqsQueue = <<>>
    /\ verdict = NotRun
    /\ response = NoResponse
    /\ apiCalls = <<>>
    /\ sendCalls = 0
    /\ payload = EmptyDict
    /\ callArg = <<None, None>>
    /\ callRet = None
    /\ totalCalls = EmptyDict
    /\ failedLookups = {}
    /\ returned = EmptyDict
    /\ written = EmptyDict
    /\ looked = EmptyDict

Init ==
    /\ env \in Environments
    /\ pc = "idle"
    /\ event = EmptyDict
    /\ now = CLOCK
    /\ workers = EmptyDict
    /\ Fresh

\* API Gateway hands the process a request
Invoke ==
    /\ pc = "idle"
    /\ sqsQueue = <<>>
    /\ event' \in Events
    /\ pc' = "invoked"
    /\ verdict' = NotRun
    /\ response' = NoResponse
    /\ apiCalls' = <<>>
    /\ sendCalls' = 0
    /\ payload' = EmptyDict
    /\ UNCHANGED <<env, caches, sqsQueue, now, direct, history, workers>>

\* lambda_handler(event, context), from its first line to its return.  What
\* the lookups and the queue answer matters only when they are called: `dry`
\* tells which calls this invocation makes.
Handle ==
    /\ pc = "invoked"
    /\ LET dry == lambda_handler(event, CLOCK, ApiRaises, ApiRaises, TRUE, env,
                                 _CHANNEL_CACHE, _USER_CACHE)
           rs  == dry.resolutions
       IN  \E rc \in (IF 1 \in Called(rs) THEN ChannelResponses(rs[1].id)
                      ELSE {ApiRaises}),
              ru \in (IF 2 \in Called(rs) THEN UserResponses(rs[2].id)
                      ELSE {ApiRaises}),
              sqsRaises \in (IF dry.sends > 0 THEN BOOLEAN ELSE {FALSE}) :
             LET out == lambda_handler(event, CLOCK, rc, ru, sqsRaises, env,
                                       _CHANNEL_CACHE, _USER_CACHE)
             IN  /\ response' = out.response
                 /\ verdict' = out.verdict
                 /\ _CHANNEL_CACHE' = out.chCache
                 /\ _USER_CACHE' = out.usCache
                 /\ sqsQueue' = sqsQueue \o out.accepted
                 /\ apiCalls' = Calls(out.resolutions)
                 /\ sendCalls' = out.sends
                 /\ payload' = out.msg
                 /\ Log(out.resolutions)
    /\ now' = CLOCK
    /\ pc' = "returned"
    /\ UNCHANGED <<env, event, direct, workers>>

\* the consumer of the queue takes the oldest message
SqsConsume ==
    /\ sqsQueue # <<>>
    /\ sqsQueue' = Tail(sqsQueue)
    /\ UNCHANGED <<env, caches, pc, event, now, verdict, response, apiCalls,
                   sendCalls, payload, direct, history, workers>>

\* the runtime has delivered the response; the process waits, warm
Return ==
    /\ pc = "returned"
    /\ pc' = "idle"
    /\ event' = EmptyDict
    /\ verdict' = NotRun
    /\ response' = NoResponse
    /\ apiCalls' = <<>>
    /\ sendCalls' = 0
    /\ payload' = EmptyDict
    /\ UNCHANGED <<env, caches, sqsQueue, now, direct, history, workers>>

Next == Invoke \/ Handle \/ Return \/ SqsConsume

Spec == Init /\ [][Next]_vars

-----------------------------------------------------------------------------
(* _verify_slack_signature on its own: one call, for each secret, clock,   *)
(* body, timestamp header and signature header of the sets below.          *)

Secrets == {SECRET, "gu3ss"}

VerifyClocks == {1700000000, 1700000600}

VerifyTimestamps ==
    {None, "", "soon", "-5", "1699999699", "1699999700", "1700000000",
     "1700000300", "1700000301"}

VerifyTexts ==
    { PlainText(""),
      json_dumps([type |-> "url_verification", challenge |-> "ch4ll3ng3"]),
      json_dumps(TamperedBody) }

\* the signature headers tried with timestamp header ts and body text
VerifySignatures(ts, text) ==
    { None, "", "v0=é", "v0=deadbeef" }
    \cup { SlackSign(key, t, signed) :
             key \in Secrets, t \in {ts, "1700000300"},
             signed \in {text, json_dumps(TamperedBody)} }

\* the header names as sent, or lowercased by the gateway
VerifyHeaders(ts, sig) ==
    { Dict({TsHeader, SigHeader}, (TsHeader :> ts) @@ (SigHeader :> sig)),
      Dict({"x-slack-request-timestamp", "x-slack-signature"},
           ("x-slack-request-timestamp" :> ts) @@ ("x-slack-signature" :> sig)) }

VerifyEventsFor(ts, text) ==
    UNION { { [headers |-> h, body |-> text] : h \in VerifyHeaders(ts, sig) } :
            sig \in VerifySignatures(ts, text) }

VerifyEvents ==
    UNION { VerifyEventsFor(x[1], x[2]) : x \in VerifyTimestamps \X VerifyTexts }

InitVerify ==
    /\ env \in { [SLACK_SIGNING_SECRET |-> k] : k \in Secrets }
    /\ pc = "verify"
    /\ event \in VerifyEvents
    /\ now \in VerifyClocks
    /\ workers = EmptyDict
    /\ Fresh

Verify ==
    /\ pc = "verify"
    /\ verdict' = _verify_slack_signature(event["headers"], event["body"].chars,
                                          now, env)
    /\ pc' = "verified"
    /\ UNCHANGED <<env, caches, sqsQueue, event, now, response, apiCalls,
                   sendCalls, payload, direct, history, workers>>

NextVerify == Verify

SpecVerify == InitVerify /\ [][NextVerify]_vars

-----------------------------------------------------------------------------
(* The resolvers on their own: a sequence of calls, one at a time *)

ChannelArgs == {None, "", "C1", "C2", "unknown"}

UserArgs == {None, "", "U1", "unknown"}

InitResolve ==
    /\ env \in { [BOT_USER_TOKEN |-> "xoxb-1"] }
    /\ pc = "idle"
    /\ event = EmptyDict
    /\ now = CLOCK
    /\ workers = EmptyDict
    /\ Fresh

\* the process has made the resolution res
Resolve(fn, res) ==
    /\ callArg' = <<fn, res.id>>
    /\ callRet' = res.name
    /\ apiCalls' = Calls(<<res>>)
    /\ Log(<<res>>)
    /\ pc' = "resolved"
    /\ UNCHANGED <<env, sqsQueue, event, now, verdict, response, sendCalls,
                   payload, workers>>

\* what the lookup answers matters only when it is made
CallChannel ==
    \E id \in ChannelArgs :
      \E r \in (IF Falsy(id) \/ id \in DOMAIN _CHANNEL_CACHE THEN {ApiRaises}
                ELSE ChannelResponses(id)) :
        LET res == get_channel_name(id, _CHANNEL_CACHE, r)
        IN  /\ Resolve("get_channel_name", res)
            /\ _CHANNEL_CACHE' = res.cache
            /\ UNCHANGED _USER_CACHE

CallUser ==
    \E id \in UserArgs :
      \E r \in (IF Falsy(id) \/ id \in DOMAIN _USER_CACHE THEN {ApiRaises}
                ELSE UserResponses(id)) :
        LET res == get_user_name(id, _USER_CACHE, r)
        IN  /\ Resolve("get_user_name", res)
            /\ _USER_CACHE' = res.cache
            /\ UNCHANGED _CHANNEL_CACHE

NextResolve == CallChannel \/ CallUser

SpecResolve == InitResolve /\ [][NextResolve]_vars

-----------------------------------------------------------------------------
(* _build_direct_message_payload on its own: a sequence of calls, one at a *)
(* time, each with a body, with what the lookups it makes answer, in a     *)
(* process whose environment sets the three defaults or none of them.      *)

\* bodies for the builder: each channel with and without an event
\* identifier, and a body without a timestamp, a user, a text or an event
BuildBodies ==
    { EventCallback(SlackEvent("message", None, None, channel, "U1", "hello",
                               "1.1"), event_id) :
        channel \in {None, "", "C1", "C2"}, event_id \in {None, "Ev1"} }
    \cup
    { EventCallback(SlackEvent("message", None, None, "C1", x[1], x[2], x[3]),
                    None) :
        x \in { <<"U1", "hello", None>>, <<None, "hello", "1.1">>,
                <<"U1", None, "1.1">> } }
    \cup {EmptyDict}

BuildEnvironments ==
    { [BOT_USER_TOKEN |-> "xoxb-1"],
      [BOT_USER_TOKEN |-> "xoxb-1", CLIENT_NAME |-> "acme",
       DEFAULT_SLA |-> "8x5", DEFAULT_PRIORITY |-> "P3"] }

\* a display name of 80 characters, the longest users.info returns
LongName ==
    "an-eighty-character-display-name-that-makes-the-subject-longer-than-one-hundred-"

BuildUserResponses(id) ==
    UserResponses(id)
    \cup (IF id \in DOMAIN UserDirectory
          THEN { [raised |-> None,
                  data |-> [ok |-> TRUE, user |-> [name |-> LongName]]] }
          ELSE {})

InitBuild ==
    /\ env \in BuildEnvironments
    /\ pc = "idle"
    /\ event = EmptyDict
    /\ now = CLOCK
    /\ workers = EmptyDict
    /\ Fresh

\* what a lookup answers matters only when it is made: `dry` tells which
\* lookups this call makes
Build ==
    \E slack_body \in BuildBodies :
      LET dry == _build_direct_message_payload(slack_body, _CHANNEL_CACHE,
                     _USER_CACHE, ApiRaises, ApiRaises, env)
          rs  == dry.resolutions
      IN  \E rc \in (IF 1 \in Called(rs) THEN ChannelResponses(rs[1].id)
                     ELSE {ApiRaises}),
             ru \in (IF 2 \in Called(rs) THEN BuildUserResponses(rs[2].id)
                     ELSE {ApiRaises}) :
            LET built == _build_direct_message_payload(slack_body,
                             _CHANNEL_CACHE, _USER_CACHE, rc, ru, env)
            IN  /\ payload' = built.msg
                /\ _CHANNEL_CACHE' = built.resolutions[1].cache
                /\ _USER_CACHE' = built.resolutions[2].cache
                /\ callArg' = <<"_build_direct_message_payload", slack_body>>
                /\ apiCalls' = Calls(built.resolutions)
                /\ Log(built.resolutions)
                /\ pc' = "built"
                /\ UNCHANGED <<env, sqsQueue, event, now, verdict, response,
                               sendCalls, callRet, workers>>

NextBuild == Build

SpecBuild == InitBuild /\ [][NextBuild]_vars

-----------------------------------------------------------------------------
(* get_channel_name run by several invocations of one warm process at      *)
(* once.  An activation is at "line75" (entered), "line82" (cache missed,  *)
(* about to call urlopen), "line105" (name chosen, about to store it) or   *)
(* "done" (returned ret).  Nothing is locked.                              *)

NumWorkers == 2

RaceArgs == {"", "C1", "C2"}

Activation(at, channel_id, name, ret) ==
    [at |-> at, channel_id |-> channel_id, name |-> name, ret |-> ret]

InitRace ==
    /\ env \in { [BOT_USER_TOKEN |-> "xoxb-1"] }
    /\ pc = "idle"
    /\ event = EmptyDict
    /\ now = CLOCK
    /\ workers = [w \in 1..NumWorkers |-> Activation("done", None, None, None)]
    /\ Fresh

RaceFrame ==
    UNCHANGED <<env, _USER_CACHE, sqsQueue, pc, event, now, verdict, response,
                apiCalls, sendCalls, payload, direct>>

RaceKey(w) == <<"conversations.info", workers[w].channel_id>>

\* an invocation calls get_channel_name(channel_id)
Enter(w) ==
    /\ workers[w].at = "done"
    /\ \E id \in RaceArgs :
         workers' = [workers EXCEPT ![w] = Activation("line75", id, None, None)]
    /\ UNCHANGED <<_CHANNEL_CACHE, history>>
    /\ RaceFrame

\* lines 75-79
CheckCache(w) ==
    LET id == workers[w].channel_id
    IN  /\ workers[w].at = "line75"
        /\ IF Falsy(id)
           THEN /\ workers' = [workers EXCEPT ![w].at = "done", ![w].ret = "unknown"]
                /\ UNCHANGED returned
           ELSE IF id \in DOMAIN _CHANNEL_CACHE
           THEN /\ workers' = [workers EXCEPT ![w].at = "done",
                                              ![w].ret = _CHANNEL_CACHE[id]]
                /\ returned' = DictSet(returned, RaceKey(w),
                                       Get(returned, RaceKey(w), {})
                                       \cup {_CHANNEL_CACHE[id]})
           ELSE /\ workers' = [workers EXCEPT ![w].at = "line82"]
                /\ UNCHANGED returned
        /\ UNCHANGED <<_CHANNEL_CACHE, totalCalls, failedLookups, written, looked>>
        /\ RaceFrame

\* lines 81-103
Lookup(w) ==
    LET id == workers[w].channel_id
    IN  /\ workers[w].at = "line82"
        /\ \E r \in ChannelResponses(id) :
             LET name == LookupName(r, "channel", id)
             IN  /\ workers' = [workers EXCEPT ![w].at = "line105",
                                               ![w].name = name]
                 /\ looked' = DictSet(looked, RaceKey(w),
                                      Get(looked, RaceKey(w), {}) \cup {name})
                 /\ failedLookups' =
                        IF LookupFailed(r, "channel")
                        THEN failedLookups \cup {RaceKey(w)} ELSE failedLookups
        /\ totalCalls' = DictSet(totalCalls, RaceKey(w),
                                 Get(totalCalls, RaceKey(w), 0) + 1)
        /\ UNCHANGED <<_CHANNEL_CACHE, returned, written>>
        /\ RaceFrame

\* lines 105-106 storing the id where the name was meant
Store_id(w) ==
    LET id   == workers[w].channel_id
        name == workers[w].name
    IN  /\ workers[w].at = "line105"
        /\ _CHANNEL_CACHE' = DictSet(_CHANNEL_CACHE, id, id)
        /\ workers' = [workers EXCEPT ![w].at = "done", ![w].ret = name]
        /\ written' = DictSet(written, RaceKey(w),
                              Get(written, RaceKey(w), {}) \cup {id})
        /\ returned' = DictSet(returned, RaceKey(w),
                               Get(returned, RaceKey(w), {}) \cup {name})
        /\ UNCHANGED <<totalCalls, failedLookups, looked>>
        /\ RaceFrame

\* lines 105-106
Store(w) ==
    LET id   == workers[w].channel_id
        name == workers[w].name
    IN  /\ workers[w].at = "line105"
        /\ _CHANNEL_CACHE' = DictSet(_CHANNEL_CACHE, id, name)
        /\ workers' = [workers EXCEPT ![w].at = "done", ![w].ret = name]
        /\ written' = DictSet(written, RaceKey(w),
                              Get(written, RaceKey(w), {}) \cup {name})
        /\ returned' = DictSet(returned, RaceKey(w),
                               Get(returned, RaceKey(w), {}) \cup {name})
        /\ UNCHANGED <<totalCalls, failedLookups, looked>>
        /\ RaceFrame

NextRace ==
    \E w \in 1..NumWorkers : Enter(w) \/ CheckCache(w) \/ Lookup(w) \/ Store(w)

SpecRace == InitRace /\ [][NextRace]_vars

-----------------------------------------------------------------------------
(* Properties *)

\* the request of the current invocation
Headers == GetDict(event, "headers")

Base64Flagged == GetBool(event, "isBase64Encoded")

Body ==
    IF "body" \in DOMAIN event /\ event["body"].chars # ""
    THEN event["body"].json ELSE EmptyDict

InnerEvent == GetDict(Body, "event")

HeaderValue(name, lower) ==
    IF name \in DOMAIN Headers /\ Headers[name] # "" THEN Headers[name]
    ELSE Get(Headers, lower, None)

TimestampValue == HeaderValue("X-Slack-Request-Timestamp",
                              "x-slack-request-timestamp")

SignatureValue == HeaderValue("X-Slack-Signature", "x-slack-signature")

FailureReasons ==
    {"missing_slack_headers", "bad_timestamp", "timestamp_out_of_range",
     "signature_mismatch"}

\* lambda_handler has just run
Handled == pc = "invoked" /\ pc' = "returned"

\* the step made no lookup, wrote no cache and enqueued nothing
NoEffect ==
    /\ apiCalls' = <<>>
    /\ sendCalls' = 0
    /\ UNCHANGED <<_CHANNEL_CACHE, _USER_CACHE, sqsQueue, history>>

\* C1: an invocation whose signature verification did not return ok makes no
\* lookup, writes no cache and enqueues nothing; and when the request is not
\* base64-flagged and the verification returned a failure, the response is
\* 401 with the reason of the failure.
C1_RejectedRequestHasNoEffect ==
    [][ (Handled /\ ~verdict'.ok) =>
          /\ NoEffect
          /\ (~Base64Flagged /\ verdict'.raised = None) =>
                /\ verdict'.reason \in FailureReasons
                /\ response'.raised = None
                /\ response'.statusCode = 401
                /\ response'.body.json =
                     [error |-> "unauthorized", reason |-> verdict'.reason] ]_vars

\* a mismatching signature was answered 401 by a process with warm caches
C1_Witness ==
    /\ pc = "returned"
    /\ response.statusCode = 401
    /\ verdict.reason = "signature_mismatch"
    /\ "C1" \in DOMAIN _CHANNEL_CACHE
    /\ "U1" \in DOMAIN _USER_CACHE

\* C2: with both headers present and an integer timestamp, verification
\* fails with timestamp_out_of_range when the timestamp is more than 300
\* seconds from the clock, before or after it, whatever the signature; and it
\* never fails with that reason when the timestamp is within 300 seconds.
C2_ReplayWindow ==
    (pc = "verified" /\ ~Falsy(TimestampValue) /\ ~Falsy(SignatureValue)
       /\ int(TimestampValue).ok) =>
      LET age == now - int(TimestampValue).val
      IN  /\ (age > 300 \/ age < -300) =>
                verdict = Verdict(FALSE, "timestamp_out_of_range")
          /\ (age <= 300 /\ age >= -300) =>
                verdict.reason # "timestamp_out_of_range"

\* a future-dated request with the correct signature was rejected
C2_Witness ==
    /\ pc = "verified"
    /\ TimestampValue = "1700000301"
    /\ now = 1700000000
    /\ SignatureValue = SlackSign(env["SLACK_SIGNING_SECRET"], "1700000301",
                                  event["body"])
    /\ verdict = Verdict(FALSE, "timestamp_out_of_range")

\* C3: with a timestamp inside the window, the signature computed from
\* (secret, timestamp, body) verifies ok, and any other signature token, also
\* the one computed from another body, fails with signature_mismatch.
C3_SignatureDecides ==
    (pc = "verified" /\ ~Falsy(TimestampValue) /\ int(TimestampValue).ok
       /\ now - int(TimestampValue).val <= 300
       /\ now - int(TimestampValue).val >= -300) =>
      LET good == SlackSign(env["SLACK_SIGNING_SECRET"], TimestampValue,
                            event["body"])
      IN  /\ SignatureValue = good => verdict = Verdict(TRUE, "ok")
          /\ (~Falsy(SignatureValue) /\ SignatureValue # good) =>
                verdict = Verdict(FALSE, "signature_mismatch")

\* the inner event passes the type, subtype, bot-marker and allow-list checks
Admitted ==
    /\ Get(Body, "type", None) = "event_callback"
    /\ Get(InnerEvent, "type", None) = "message"
    /\ Falsy(Get(InnerEvent, "subtype", None))
    /\ "bot_id" \notin DOMAIN InnerEvent
    /\ \/ Falsy(Get(env, "ALLOWED_CHANNEL_ID", None))
       \/ Get(InnerEvent, "channel", None) = env["ALLOWED_CHANNEL_ID"]

\* the invocation made a send_message call that the queue did not accept
EnqueueFailed == sendCalls = 1 /\ response.raised = "ClientError"

Success == response.raised = None /\ response.statusCode = 200

\* C4: an invocation ends without success only if the signature verification
\* failed or the enqueue failed: an authenticated request whose enqueue does
\* not fail is answered 200, whatever its body.
C4_OnlyAuthAndSinkFailures ==
    (pc = "returned" /\ ~Success) => (~verdict.ok \/ EnqueueFailed)

\* C5: in a sequence of resolver calls, no identifier is looked up twice, and
\* a call for an identifier that is in the cache returns the cached name
\* without a lookup.
C5_AtMostOneLookup ==
    [][ pc' = "resolved" =>
          LET id    == callArg'[2]
              cache == IF callArg'[1] = "get_channel_name"
                       THEN _CHANNEL_CACHE ELSE _USER_CACHE
          IN  /\ \A k \in DOMAIN totalCalls' : totalCalls'[k] <= 1
              /\ id \in DOMAIN cache =>
                    /\ apiCalls' = <<>>
                    /\ callRet' = cache[id]
                    /\ UNCHANGED <<_CHANNEL_CACHE, _USER_CACHE, totalCalls>> ]_vars

\* a channel that was looked up has been resolved again, from the cache
C5_Witness ==
    /\ pc = "resolved"
    /\ callArg = <<"get_channel_name", "C1">>
    /\ apiCalls = <<>>
    /\ callRet = "general"
    /\ Get(totalCalls, <<"conversations.info", "C1">>, 0) = 1

\* the cache that serves the lookups of `path`
CacheOf(path) ==
    IF path = "conversations.info" THEN _CHANNEL_CACHE ELSE _USER_CACHE

\* C6: once the lookup of an identifier has failed, every resolution of it,
\* the failing one and the later ones, returned the identifier itself, the
\* cache holds the identifier as its name, and no second lookup was made.
C6_FailureIsRemembered ==
    \A k \in failedLookups :
        /\ totalCalls[k] = 1
        /\ returned[k] = {k[2]}
        /\ k[2] \in DOMAIN CacheOf(k[1])
        /\ CacheOf(k[1])[k[2]] = k[2]

\* a user of the directory whose lookup failed has been resolved again
C6_Witness ==
    /\ pc = "resolved"
    /\ <<"users.info", "U1">> \in failedLookups
    /\ callArg = <<"get_user_name", "U1">>
    /\ apiCalls = <<>>
    /\ callRet = "U1"

\* C7 as stated: under every interleaving all resolutions of one identifier
\* return the same name, and the name cached for it never changes.
C7_RaceKeepsOneName ==
    \A k \in DOMAIN returned \cup DOMAIN written :
        /\ Cardinality(Get(returned, k, {})) <= 1
        /\ Cardinality(Get(written, k, {})) <= 1

\* C7 amended: under every interleaving each resolution of an identifier
\* returns, and the cache holds, a name that a lookup of that identifier
\* produced: the looked-up name, or the identifier itself after a failed
\* lookup.  So when the lookups of an identifier all have the same outcome,
\* all its resolutions return the same name and its cached name never
\* changes; the race then costs only the redundant calls.
C7_RaceKeepsLookedUpNames ==
    \A k \in DOMAIN returned \cup DOMAIN written \cup DOMAIN looked :
        LET names == Get(looked, k, {})
        IN  /\ Get(returned, k, {}) \subseteq names
            /\ Get(written, k, {}) \subseteq names
            /\ names \subseteq {k[2], ChannelDirectory[k[2]]}
            /\ k[2] \in DOMAIN _CHANNEL_CACHE => _CHANNEL_CACHE[k[2]] \in names
            /\ Cardinality(names) = 1 =>
                  /\ Cardinality(Get(returned, k, {})) <= 1
                  /\ Cardinality(Get(written, k, {})) <= 1

\* two activations both missed the cache for C1, both looked it up with the
\* same outcome and both returned
C7_Witness ==
    /\ Get(totalCalls, <<"conversations.info", "C1">>, 0) = 2
    /\ Get(looked, <<"conversations.info", "C1">>, {}) = {"general"}
    /\ \A w \in DOMAIN workers :
          /\ workers[w].at = "done"
          /\ workers[w].channel_id = "C1"
          /\ workers[w].ret = "general"

\* C8: an authenticated, admitted event whose text lacks the keyword is
\* answered 200 and the queue sink is not invoked.
C8_NoKeywordNoEnqueue ==
    (pc = "returned" /\ verdict.ok /\ Admitted
       /\ ~Contains(Get(InnerEvent, "text", ""), "prio1")) =>
      /\ Success
      /\ sendCalls = 0

\* C9: for a url_verification body, a challenge is returned only when the
\* verification returned ok; a verification failure is answered 401 without
\* a challenge; a success is answered 200 with exactly the challenge of the
\* body, and the invocation makes no lookup, writes no cache and enqueues
\* nothing.
C9_ChallengeAfterVerification ==
    [][ (Handled /\ Get(Body, "type", None) = "url_verification") =>
          /\ NoEffect
          /\ "challenge" \in DOMAIN response'.body.json => verdict'.ok
          /\ (~Base64Flagged /\ verdict'.raised = None /\ ~verdict'.ok) =>
                response'.statusCode = 401
          /\ verdict'.ok =>
                /\ response'.raised = None
                /\ response'.statusCode = 200
                /\ response'.body.json =
                     Entry("challenge", Get(Body, "challenge", None)) ]_vars

\* the challenge of a verified handshake was echoed by a warm process
C9_Witness ==
    /\ pc = "returned"
    /\ Get(Body, "type", None) = "url_verification"
    /\ verdict.ok
    /\ response.statusCode = 200
    /\ response.body.json = [challenge |-> "ch4ll3ng3"]
    /\ "C1" \in DOMAIN _CHANNEL_CACHE

\* C10: an invocation calls send_message at most once, and when the queue
\* does not accept the message the failure escapes the handler: there is no
\* 200 response.
C10_EnqueueFailurePropagates ==
    [][ Handled =>
          /\ sendCalls' <= 1
          /\ Len(sqsQueue') - Len(sqsQueue) <= sendCalls'
          /\ sendCalls' > Len(sqsQueue') - Len(sqsQueue) =>
                /\ response'.raised # None
                /\ response'.statusCode # 200 ]_vars

\* send_message was called once, raised, and the exception escaped
C10_Witness ==
    /\ pc = "returned"
    /\ sendCalls = 1
    /\ sqsQueue = <<>>
    /\ response.raised = "ClientError"

\* the identifiers the payload builder resolves for the current request
ChannelId == Get(InnerEvent, "channel", "unknown")

UserId == Get(InnerEvent, "user", "unknown")

ChannelKey == <<"conversations.info", ChannelId>>

UserKey == <<"users.info", UserId>>

Text == Get(InnerEvent, "text", "")

\* the alias of the current request when its body has no event identifier
FallbackAlias == "slack-" \o ChannelId \o "-" \o Get(InnerEvent, "ts", "no-ts")

\* C11: when an authenticated, admitted event with the keyword has both its
\* channel lookup and its user lookup made and failing, no lookup failure
\* reaches the caller: send_message is called once, nothing but its own
\* failure escapes, and when the queue accepts the message the response is
\* 200 and exactly one message is enqueued, whose account_id and
\* account_name are the channel id without "#" and whose alias is
\* "slack-" + channel id + "-" + ts when the body has no event identifier.
C11_LookupFailuresAreAbsorbed ==
    [][ (Handled /\ verdict'.ok /\ Admitted /\ Contains(Text, "prio1")
           /\ apiCalls' = <<ChannelKey, UserKey>>
           /\ {ChannelKey, UserKey} \subseteq failedLookups') =>
          /\ sendCalls' = 1
          /\ response'.raised \in {None, "ClientError"}
          /\ response'.raised = None =>
                /\ response' = Ok
                /\ Len(sqsQueue') = Len(sqsQueue) + 1
                /\ LET m == sqsQueue'[Len(sqsQueue')].MessageBody.json
                   IN  /\ m.account_id = ChannelId
                       /\ m.account_name = ChannelId
                       /\ "event_id" \notin DOMAIN Body =>
                             m.alias = FallbackAlias ]_vars

\* both lookups of a keyword message in C1 from U1 failed and the message
\* was enqueued under the identifiers
C11_Witness ==
    /\ pc = "returned"
    /\ response = Ok
    /\ apiCalls = <<<<"conversations.info", "C1">>, <<"users.info", "U1">>>>
    /\ {<<"conversations.info", "C1">>, <<"users.info", "U1">>}
          \subseteq failedLookups
    /\ Len(sqsQueue) = 1
    /\ sqsQueue[1].MessageBody.json.alias = "slack-C1-1.1"
    /\ sqsQueue[1].MessageBody.json.account_id = "C1"
    /\ sqsQueue[1].MessageBody.json.account_name = "C1"

\* the body handed to the current direct call of the payload builder
BuiltBody == callArg[2]

\* what identifies a body downstream: its event identifier, or the channel
\* id and timestamp the builder reads when the body has none
AliasIdentity(slack_body) ==
    LET ev == GetDict(slack_body, "event")
    IN  IF ~Falsy(Get(slack_body, "event_id", None))
        THEN <<"event_id", slack_body["event_id"]>>
        ELSE <<"fallback", Get(ev, "channel", "unknown"),
               Get(ev, "ts", "no-ts")>>

AliasOf(identity) ==
    IF identity[1] = "event_id" THEN "slack-" \o identity[2]
    ELSE "slack-" \o identity[2] \o "-" \o identity[3]

\* C12: the alias of every payload built is "slack-" + the event identifier
\* of the body, or "slack-" + channel id + "-" + timestamp when the body has
\* no event identifier, whatever the caches hold, the lookups answer or the
\* environment sets; and two calls in a row for bodies with the same
\* identity build the same alias.
C12_AliasDependsOnIdentityOnly ==
    [][ pc' = "built" =>
          /\ payload'.alias = AliasOf(AliasIdentity(BuiltBody'))
          /\ (pc = "built"
                /\ AliasIdentity(BuiltBody) = AliasIdentity(BuiltBody')) =>
                payload'.alias = payload.alias ]_vars

\* a body with an event identifier was built from warm caches, after the
\* lookup of its channel had failed in an earlier call
C12_Witness ==
    /\ pc = "built"
    /\ Get(BuiltBody, "event_id", None) = "Ev1"
    /\ payload.alias = "slack-Ev1"
    /\ Get(GetDict(BuiltBody, "event"), "channel", None) = "C1"
    /\ apiCalls = <<>>
    /\ <<"conversations.info", "C1">> \in failedLookups

\* the names the current direct call of the builder resolved: the cached
\* name of each identifier, "unknown" for an empty one
BuiltChannelId == Get(GetDict(BuiltBody, "event"), "channel", "unknown")

BuiltChannelName ==
    IF Falsy(BuiltChannelId) THEN "unknown" ELSE _CHANNEL_CACHE[BuiltChannelId]

BuiltUserId == Get(GetDict(BuiltBody, "event"), "user", "unknown")

BuiltUserName ==
    IF Falsy(BuiltUserId) THEN "unknown" ELSE _USER_CACHE[BuiltUserId]

\* C18: in every payload built, account_id is the channel id of the event,
\* whatever the lookup answered and the caches held, and the channel shown
\* in account_name, subject and message is "#" + the resolved name when that
\* name differs from the channel id and the bare channel id when it does not.
C18_ChannelDisplay ==
    pc = "built" =>
      LET display == IF BuiltChannelName # BuiltChannelId
                     THEN "#" \o BuiltChannelName ELSE BuiltChannelId
          subject == "Slack message in " \o display \o " from "
                     \o BuiltUserName
      IN  /\ payload.account_id = BuiltChannelId
          /\ payload.account_name = display
          /\ payload.account_name \in {"#" \o BuiltChannelName, BuiltChannelId}
          /\ payload.subject = SubSeq(subject, 1, Min(100, Len(subject)))
          /\ payload.message =
                "Channel: " \o display \o "\nUser: " \o BuiltUserName \o "\n\n"
                \o Get(GetDict(BuiltBody, "event"), "text", "")

\* C1 was shown by name from the cache and C2 by its bare id after a failed
\* lookup, the id of each kept in account_id
C18_Witness ==
    /\ pc = "built"
    /\ BuiltChannelId = "C1"
    /\ payload.account_id = "C1"
    /\ payload.account_name = "#general"
    /\ apiCalls = <<>>
    /\ "C2" \in DOMAIN _CHANNEL_CACHE
    /\ _CHANNEL_CACHE["C2"] = "C2"

\* the filter rejects the current request: it is neither the handshake nor
\* an admitted event
Rejected == Get(Body, "type", None) # "url_verification" /\ ~Admitted

\* C13: every authenticated request the filter rejects is answered 200 with
\* a body that carries the "ignored" marker.
C13_RejectionsAreMarkedIgnored ==
    (pc = "returned" /\ verdict.ok /\ Rejected) =>
      /\ Success
      /\ Contains(response.body.chars, "ignored")

\* C14: a resolver called with an empty or absent identifier returns
\* "unknown", makes no lookup and leaves both caches as they were.
C14_EmptyIdentifierIsUnknown ==
    [][ (pc' = "resolved" /\ Falsy(callArg'[2])) =>
          /\ callRet' = "unknown"
          /\ apiCalls' = <<>>
          /\ UNCHANGED <<_CHANNEL_CACHE, _USER_CACHE, totalCalls>>
          /\ \A id \in DOMAIN _CHANNEL_CACHE' \cup DOMAIN _USER_CACHE' :
                ~Falsy(id) ]_vars

\* get_user_name("") returned "unknown" in a process whose caches are warm
C14_Witness ==
    /\ pc = "resolved"
    /\ callArg = <<"get_user_name", "">>
    /\ callRet = "unknown"
    /\ apiCalls = <<>>
    /\ "U1" \in DOMAIN _USER_CACHE
    /\ "C1" \in DOMAIN _CHANNEL_CACHE

\* the reference classification of the current request, in its
\* short-circuit order
Classification ==
    IF Get(Body, "type", None) = "url_verification" THEN "handshake"
    ELSE IF Get(Body, "type", None) # "event_callback" THEN "rejected"
    ELSE IF Get(InnerEvent, "type", None) # "message" THEN "rejected"
    ELSE IF "subtype" \in DOMAIN InnerEvent THEN "rejected"
    ELSE IF "bot_id" \in DOMAIN InnerEvent THEN "rejected"
    ELSE IF "ALLOWED_CHANNEL_ID" \in DOMAIN env
            /\ env["ALLOWED_CHANNEL_ID"] # Get(InnerEvent, "channel", None)
         THEN "rejected"
    ELSE "admitted"

\* what the handler did with the current request: it built a payload, it
\* answered with a challenge, or it did neither
Enriched == DOMAIN payload # {}

Observed ==
    IF Enriched THEN "admitted"
    ELSE IF "challenge" \in DOMAIN response.body.json THEN "handshake"
    ELSE "rejected"

\* C15: for every authenticated request the handler classifies as the
\* reference order does; a payload is built, and send_message can be called,
\* if and only if the event is admitted (it is called when the text has the
\* keyword); and without an allow-list the channel plays no part.
C15_ClassificationOrder ==
    (pc = "returned" /\ verdict.ok) =>
      /\ Observed = Classification
      /\ Enriched <=> Classification = "admitted"
      /\ sendCalls > 0 => Classification = "admitted"
      /\ (Classification = "admitted" /\ Contains(Text, "prio1")) =>
            sendCalls = 1
      /\ Classification = "rejected" => response \in {Ok, Ignored}
      /\ ("ALLOWED_CHANNEL_ID" \notin DOMAIN env
            /\ Get(Body, "type", None) = "event_callback"
            /\ Get(InnerEvent, "type", None) = "message"
            /\ "subtype" \notin DOMAIN InnerEvent
            /\ "bot_id" \notin DOMAIN InnerEvent) => Enriched

\* with the allow-list set to C1, a plain user message in C2 was rejected
\* and one in C1 had been admitted before
C15_Witness ==
    /\ pc = "returned"
    /\ verdict.ok
    /\ Get(env, "ALLOWED_CHANNEL_ID", None) = "C1"
    /\ Get(InnerEvent, "type", None) = "message"
    /\ Get(InnerEvent, "channel", None) = "C2"
    /\ DOMAIN InnerEvent \cap {"subtype", "bot_id"} = {}
    /\ response = Ignored
    /\ ~Enriched
    /\ "C1" \in DOMAIN _CHANNEL_CACHE

\* C16: an invocation that ends in a filter rejection builds no payload,
\* makes no lookup, writes no cache and does not call send_message.
C16_RejectionPrecedesEnrichment ==
    [][ (Handled /\ verdict'.ok /\ Rejected) =>
          /\ NoEffect
          /\ ~Enriched'
          /\ response' \in {Ok, Ignored} ]_vars

\* a bot post in C2 was rejected while C2 had never been looked up
C16_Witness ==
    /\ pc = "returned"
    /\ verdict.ok
    /\ "bot_id" \in DOMAIN InnerEvent
    /\ Get(InnerEvent, "channel", None) = "C2"
    /\ response = Ignored
    /\ "C2" \notin DOMAIN _CHANNEL_CACHE
    /\ <<"conversations.info", "C2">> \notin DOMAIN totalCalls
    /\ "C1" \in DOMAIN _CHANNEL_CACHE

\* the lookups of `path` among the urlopen calls `calls`
CallsTo(path, calls) == {i \in DOMAIN calls : calls[i][1] = path}

\* C17: when an admitted event has no user field (no channel field), the
\* invocation makes no users.info (conversations.info) call and leaves the
\* user (channel) cache as it was.
C17_AbsentFieldIsNotLookedUp ==
    [][ (Handled /\ verdict'.ok /\ Admitted) =>
          /\ "user" \notin DOMAIN InnerEvent =>
                /\ CallsTo("users.info", apiCalls') = {}
                /\ UNCHANGED _USER_CACHE
          /\ "channel" \notin DOMAIN InnerEvent =>
                /\ CallsTo("conversations.info", apiCalls') = {}
                /\ UNCHANGED _CHANNEL_CACHE ]_vars

\* every entry of `cache` has a non-empty key and holds a name a lookup of
\* that key produced: the non-empty name of the directory, or the key
UsableNames(path, cache, directory) ==
    \A id \in DOMAIN cache :
        /\ ~Falsy(id)
        /\ ~Falsy(cache[id])
        /\ \/ cache[id] = id
           \/ id \in DOMAIN directory /\ cache[id] = directory[id]
        /\ <<path, id>> \in DOMAIN looked
        /\ cache[id] \in looked[<<path, id>>]

\* C19: in every state of the process neither cache has an empty key, and
\* the name cached for an identifier is the non-empty name its lookup
\* returned or the identifier itself: never an empty name, and nothing
\* that was not the outcome of a lookup of that identifier.
C19_CachesHoldUsableNames ==
    /\ UsableNames("conversations.info", _CHANNEL_CACHE, ChannelDirectory)
    /\ UsableNames("users.info", _USER_CACHE, UserDirectory)

\* the caches after a successful and a failed lookup and a call with the
\* empty identifier
C19_Witness ==
    /\ pc = "resolved"
    /\ callArg = <<"get_channel_name", "">>
    /\ callRet = "unknown"
    /\ _CHANNEL_CACHE = [C1 |-> "general", C2 |-> "C2"]
    /\ _USER_CACHE = [U1 |-> "U1"]

\* the lookups an invocation for the current request has to make: one for
\* each of its two identifiers that is not empty and not cached, the
\* channel first
LookupsDue ==
    (IF Falsy(ChannelId) \/ ChannelId \in DOMAIN _CHANNEL_CACHE THEN <<>>
     ELSE <<ChannelKey>>)
    \o (IF Falsy(UserId) \/ UserId \in DOMAIN _USER_CACHE THEN <<>>
        ELSE <<UserKey>>)

\* C20: an invocation for an admitted event resolves both names and builds
\* the payload whether or not the text has the keyword: it looks up each
\* identifier that is not cached and leaves both cached; so an admitted
\* event with the keyword whose channel and user are cached, by an earlier
\* event without the keyword or otherwise, is enqueued without a lookup.
C20_EnrichmentPrecedesKeywordCheck ==
    [][ (Handled /\ verdict'.ok /\ Admitted) =>
          /\ Enriched'
          /\ apiCalls' = LookupsDue
          /\ ~Falsy(ChannelId) => ChannelId \in DOMAIN _CHANNEL_CACHE'
          /\ ~Falsy(UserId) => UserId \in DOMAIN _USER_CACHE'
          /\ ~Contains(Text, "prio1") => sendCalls' = 0
          /\ (Contains(Text, "prio1") /\ LookupsDue = <<>>) =>
                /\ apiCalls' = <<>>
                /\ sendCalls' = 1
                /\ response'.raised = None =>
                      /\ response' = Ok
                      /\ Len(sqsQueue') = Len(sqsQueue) + 1 ]_vars

\* an event without the keyword was answered 200 after both of its names
\* had been looked up and cached, and nothing was sent
C20_Witness ==
    /\ pc = "returned"
    /\ verdict.ok
    /\ Text = "hello"
    /\ response = Ok
    /\ sendCalls = 0
    /\ apiCalls = <<<<"conversations.info", "C1">>, <<"users.info", "U1">>>>
    /\ _CHANNEL_CACHE = [C1 |-> "general"]
    /\ _USER_CACHE = [U1 |-> "alice"]
    /\ payload.account_name = "#general"

====
